---- MODULE Spec2Model ----
(***************************************************************************)
(* A model of the dx-cli-tools argument router (src/parser.js) and of the  *)
(* console presenter's style composition (src/unnamed/part_001).           *)
(*                                                                         *)
(* Strings that the code inspects character by character (the command line *)
(* tokens, through arg.charAt(0)) are sequences of one-character strings.  *)
(* A JavaScript object with string keys is an association list: a sequence *)
(* of [k |-> key, v |-> value] entries in insertion order, which is the    *)
(* order Object.keys() iterates in.                                        *)
(***************************************************************************)
EXTENDS Integers, Sequences, FiniteSets, TLC

VARIABLES
    argv,               \* process.argv
    runParams,          \* runParams.supportedArguments, the caller's registry
    supportedArguments, \* the module-level flag registry
    parsedArgs,         \* the object parseInputArguments returns
    processedArgs,      \* the object processParsedArguments returns
    pc,                 \* where run() is
    error,              \* the Error run() was rejected with, or NoError
    exitStatus,         \* the status given to process.exit, or -1
    argIdx,             \* position of the for..of loop in Object.keys(processedArgs)
    calls,              \* the handler invocations made so far, in order
    outcome,            \* per invocation: "pending", "ok" or "rejected"
    execPending,        \* invocations of version whose child process has not yet written
    trace,              \* observable events in order: starts, settlements, prints
    usage,              \* the table outputSupportedUsage gave to console.table
    formats,            \* the argument of getCommandLineFormat
    finalFormat         \* what getCommandLineFormat returned

vars == <<argv, runParams, supportedArguments, parsedArgs, processedArgs, pc, error,
          exitStatus, argIdx, calls, outcome, execPending, trace, usage, formats,
          finalFormat>>

(***************************************************************************)
(* Bounds of the model.                                                    *)
(***************************************************************************)
MaxArgs == 3      \* tokens after "node script.js" on a command line given to run()
MaxTokens == 4    \* tokens of a process.argv given to the parser alone
MaxFormats == 3   \* format names in one call of getCommandLineFormat

(***************************************************************************)
(* Tokens.                                                                 *)
(***************************************************************************)
unknowns == <<"u", "n", "k", "n", "o", "w", "n", "s">>
TokNode == <<"n", "o", "d", "e">>
TokScript == <<"s", ".", "j", "s">>
TokEmpty == <<>>
TokX == <<"x">>
TokY == <<"y">>
TokH == <<"-", "h">>
TokHelp == <<"-", "-", "h", "e", "l", "p">>
TokV == <<"-", "v">>
TokVersion == <<"-", "-", "v", "e", "r", "s", "i", "o", "n">>
TokA == <<"-", "a">>
TokB == <<"-", "b">>
TokAll == <<"-", "-", "a", "l", "l">>

\* String.prototype.charAt(0): the first character, or the empty string.
CharAt0(arg) == IF Len(arg) = 0 THEN "" ELSE arg[1]

\* All sequences over S of length at most n.
SeqsUpTo(S, n) == UNION {[1..m -> S] : m \in 0..n}

(***************************************************************************)
(* JavaScript objects as insertion-ordered association lists.              *)
(***************************************************************************)
Undefined == [undefined |-> TRUE]

\* Object.keys(obj)
ObjectKeys(obj) == [i \in 1..Len(obj) |-> obj[i].k]

\* Object.keys(obj).includes(key) / obj.hasOwnProperty(key)
HasKey(obj, key) == \E i \in 1..Len(obj) : obj[i].k = key

\* obj[key]
GetProp(obj, key) ==
    IF HasKey(obj, key)
    THEN obj[CHOOSE i \in 1..Len(obj) : obj[i].k = key].v
    ELSE Undefined

\* obj[key] = value: an existing key keeps its place, a new one goes last.
SetProp(obj, key, value) ==
    IF HasKey(obj, key)
    THEN [i \in 1..Len(obj) |-> IF obj[i].k = key THEN [k |-> key, v |-> value] ELSE obj[i]]
    ELSE Append(obj, [k |-> key, v |-> value])

\* delete obj[key]
DeleteProp(obj, key) == SelectSeq(obj, LAMBDA e : e.k # key)

(***************************************************************************)
(* parseInputArguments                                                     *)
(***************************************************************************)
\* One iteration of the forEach callback: st = [parsedArgs, currentArgName].
ParseArg(st, arg) ==
    IF CharAt0(arg) = "-"
    THEN [parsedArgs |-> SetProp(st.parsedArgs, arg, <<>>), currentArgName |-> arg]
    ELSE [parsedArgs |-> SetProp(st.parsedArgs, st.currentArgName,
                                 Append(GetProp(st.parsedArgs, st.currentArgName), arg)),
          currentArgName |-> st.currentArgName]

RECURSIVE ParseFrom(_, _, _)
ParseFrom(args, idx, st) ==
    IF idx > Len(args) THEN st.parsedArgs
    ELSE ParseFrom(args, idx + 1, ParseArg(st, args[idx]))

parseInputArguments(args) ==
    ParseFrom(args, 1, [parsedArgs |-> <<[k |-> unknowns, v |-> <<>>]>>,
                        currentArgName |-> unknowns])

(***************************************************************************)
(* The flag registry                                                       *)
(***************************************************************************)
HelpDef ==
    [name |-> "help", description |-> "Prints the currently supported usage of the CLI",
     f |-> [id |-> "help", kind |-> "help"]]
VersionDef ==
    [name |-> "version", description |-> "Prints the currently installed version",
     f |-> [id |-> "version", kind |-> "version"]]

\* const supportedArguments = { "-h": help, "--help": help, "-v": version, ... }
BuiltinArguments ==
    <<[k |-> TokH, v |-> HelpDef], [k |-> TokHelp, v |-> HelpDef],
      [k |-> TokV, v |-> VersionDef], [k |-> TokVersion, v |-> VersionDef]>>

\* What a handler supplied by the embedding tool may do when called: return a
\* plain value, return a promise that is fulfilled or rejected by a later
\* event, or throw.
HandlerKinds == {"sync", "async", "throws", "rejects"}

UserDef(name, id, kind) ==
    [name |-> name, description |-> "Supplied by the embedding tool",
     allowedOptions |-> <<"opt">>, f |-> [id |-> id, kind |-> kind]]

\* Object.keys(params).forEach(argName => registry[argName] = params[argName])
RECURSIVE MergeFrom(_, _, _)
MergeFrom(registry, params, idx) ==
    IF idx > Len(params) THEN registry
    ELSE MergeFrom(SetProp(registry, params[idx].k, params[idx].v), params, idx + 1)

MergeArguments(registry, params) == MergeFrom(registry, params, 1)

(***************************************************************************)
(* handleError and processParsedArguments                                  *)
(***************************************************************************)
NoError == [name |-> "none", message |-> <<>>]

\* new Error(message)
NewError(message) == [name |-> "Error", message |-> message]

\* What a failing handler raises; n is the position of the invocation.
HandlerError(n) == [name |-> "HandlerError", message |-> <<n>>]

Event(e, what, i) == [e |-> e, what |-> what, i |-> i]

\* Object.keys(processedArgs).forEach: the first key that is not a key of the
\* registry raises through handleError, which ends the iteration.
RECURSIVE ValidateFrom(_, _, _)
ValidateFrom(registry, keys, idx) ==
    IF idx > Len(keys) THEN NoError
    ELSE IF ~HasKey(registry, keys[idx])
         THEN NewError(<<"Invalid argument: ">> \o keys[idx])
         ELSE ValidateFrom(registry, keys, idx + 1)

\* A validation that looks at the first key only.
ValidateFirstOnly(registry, keys) ==
    IF Len(keys) > 0 /\ ~HasKey(registry, keys[1])
    THEN NewError(<<"Invalid argument: ">> \o keys[1])
    ELSE NoError

ValidateKeys(registry, keys) == ValidateFrom(registry, keys, 1)

\* A validation that leaves the reserved bucket in the object.
processKeepingReserved(registry, parsed) ==
    LET err == ValidateKeys(registry, ObjectKeys(parsed))
    IN  [raised |-> err # NoError, error |-> err, value |-> parsed]

\* The result of processParsedArguments: the object it was given, with the
\* reserved bucket deleted (it is mutated in place), and the error raised.
processParsedArguments(registry, parsed) ==
    LET processed == DeleteProp(parsed, unknowns)
        err == ValidateKeys(registry, ObjectKeys(processed))
    IN  [raised |-> err # NoError, error |-> err, value |-> processed]

(***************************************************************************)
(* outputSupportedUsage                                                    *)
(***************************************************************************)
\* A callback that makes a fresh row for every token.
UsageRowOverwrite(registry, table, argumentName) ==
    LET def == GetProp(registry, argumentName)
    IN  SetProp(table, def.name,
                [Flags |-> <<argumentName>>, Options |-> <<>>,
                 Description |-> def.description])

\* The callback of Object.keys(supportedArguments).map
UsageRow(registry, table, argumentName) ==
    LET def == GetProp(registry, argumentName)
        argName == def.name
    IN  IF ~HasKey(table, argName)
        THEN SetProp(table, argName,
                     [Flags |-> <<argumentName>>,
                      Options |-> IF "allowedOptions" \in DOMAIN def
                                  THEN def.allowedOptions ELSE <<>>,
                      Description |-> def.description])
        ELSE SetProp(table, argName,
                     [GetProp(table, argName) EXCEPT !.Flags = Append(@, argumentName)])

RECURSIVE UsageFrom(_, _, _)
UsageFrom(registry, table, idx) ==
    IF idx > Len(registry) THEN table
    ELSE UsageFrom(registry, UsageRow(registry, table, registry[idx].k), idx + 1)

outputSupportedUsage(registry) == UsageFrom(registry, <<>>, 1)

(***************************************************************************)
(* run: set-up, parsing, validation                                        *)
(***************************************************************************)
\* Object.keys(runParams.supportedArguments).forEach(...)
RunMerge ==
    /\ pc = "start"
    /\ supportedArguments' = MergeArguments(supportedArguments, runParams)
    /\ pc' = "parse"
    /\ UNCHANGED <<argv, runParams, parsedArgs, processedArgs, error, exitStatus, argIdx,
                   calls, outcome, execPending, trace, usage, formats, finalFormat>>

\* const parsedArgs = parseInputArguments()
RunParse ==
    /\ pc = "parse"
    /\ parsedArgs' = parseInputArguments(argv)
    /\ pc' = "process"
    /\ UNCHANGED <<argv, runParams, supportedArguments, processedArgs, error, exitStatus,
                   argIdx, calls, outcome, execPending, trace, usage, formats, finalFormat>>

\* const processedArgs = processParsedArguments(parsedArgs)
\* processedArgs is the very object parsedArgs names, so both change; when
\* handleError raises, the banner is printed and run() is rejected.
RunProcess ==
    /\ pc = "process"
    /\ LET r == processParsedArguments(supportedArguments, parsedArgs)
       IN  /\ parsedArgs' = r.value
           /\ IF r.raised
              THEN /\ pc' = "failed"
                   /\ error' = r.error
                   /\ trace' = Append(trace, Event("print", "error-banner", 0))
                   /\ UNCHANGED processedArgs
              ELSE /\ pc' = "check"
                   /\ processedArgs' = r.value
                   /\ UNCHANGED <<error, trace>>
    /\ UNCHANGED <<argv, runParams, supportedArguments, exitStatus, argIdx, calls, outcome,
                   execPending, usage, formats, finalFormat>>

\* Object.keys(processedArgs).length === 0, read off the parsed object before
\* the reserved bucket is gone.
NoFlagsCountingReserved(processed) ==
    Len(ObjectKeys(SetProp(processed, unknowns, <<>>))) = 0

\* Object.keys(processedArgs).length === 0
NoFlags(processed) == Len(ObjectKeys(processed)) = 0

\* if (no flags) { console.log(hint); process.exit(1); }
RunCheckFlags ==
    /\ pc = "check"
    /\ IF NoFlags(processedArgs)
       THEN /\ trace' = Append(trace, Event("print", "no-flags-hint", 0))
            /\ exitStatus' = 1
            /\ pc' = "exited"
       ELSE /\ pc' = "dispatch"
            /\ UNCHANGED <<trace, exitStatus>>
    /\ UNCHANGED <<argv, runParams, supportedArguments, parsedArgs, processedArgs, error,
                   argIdx, calls, outcome, execPending, usage, formats, finalFormat>>

(***************************************************************************)
(* run: the dispatch loop                                                  *)
(*   for (const argName of Object.keys(processedArgs)) {                   *)
(*       await supportedArguments[argName].f.call(this, ...args);          *)
(*   }                                                                     *)
(***************************************************************************)
\* A call that passes no arguments on.
HandlerCallNoArgs(argName) ==
    [key |-> argName, f |-> GetProp(supportedArguments, argName).f, args |-> <<>>]

\* supportedArguments[argName].f.call(this, ...processedArgs[argName])
HandlerCall(argName) ==
    [key |-> argName,
     f |-> GetProp(supportedArguments, argName).f,
     args |-> GetProp(processedArgs, argName)]

\* The state of the value a handler of this kind returns, at the moment it
\* returns: a plain value counts as settled, a promise is pending.
ReturnedValue(kind) ==
    CASE kind \in {"sync", "version"} -> "ok"
      [] kind \in {"help", "async", "rejects"} -> "pending"
      [] OTHER -> "threw"

\* A loop that goes on to the next key without waiting for the returned value.
NoAwait(idx) ==
    [pc |-> IF idx + 1 > Len(ObjectKeys(processedArgs)) THEN "done" ELSE "dispatch",
     argIdx |-> idx + 1]

\* await: the loop is suspended at idx until the returned value has settled.
Await(idx) == [pc |-> "await", argIdx |-> idx]

\* A continuation that goes on to the next key whatever the result was.
ContinueAnyway(idx, result) ==
    [pc |-> IF idx + 1 > Len(ObjectKeys(processedArgs)) THEN "done" ELSE "dispatch",
     argIdx |-> idx + 1, error |-> NoError]

\* What follows the await at idx: a rejection is rethrown out of run(), a
\* fulfilment lets the loop go on, and run() returns after the last key.
Continue(idx, result) ==
    IF result = "rejected"
    THEN [pc |-> "failed", argIdx |-> idx, error |-> HandlerError(idx)]
    ELSE [pc |-> IF idx + 1 > Len(ObjectKeys(processedArgs)) THEN "done" ELSE "dispatch",
          argIdx |-> idx + 1, error |-> NoError]

\* What the handler prints before it returns; n is the invocation's position.
\* version reads the local package.json and prints the local version, or the
\* message that it could not.
SyncPrints(kind, n, localReadable) ==
    CASE kind = "help" -> <<Event("print", "usage-header", n), Event("print", "usage-table", n)>>
      [] kind = "version" ->
            <<Event("print", IF localReadable THEN "local-version" ELSE "local-unavailable", n)>>
      [] OTHER -> <<>>

\* The loop calls the handler of the key at argIdx.
RunInvoke ==
    /\ pc = "dispatch"
    /\ argIdx <= Len(ObjectKeys(processedArgs))
    /\ HasKey(supportedArguments, ObjectKeys(processedArgs)[argIdx])
    /\ \E localReadable \in BOOLEAN :
         LET argName == ObjectKeys(processedArgs)[argIdx]
             call == HandlerCall(argName)
             kind == call.f.kind
             n == Len(calls) + 1
             ret == ReturnedValue(kind)
         IN  /\ kind = "version" \/ localReadable
             /\ calls' = Append(calls, call)
             /\ outcome' = Append(outcome, ret)
             /\ trace' = trace \o <<Event("start", kind, n)>>
                               \o SyncPrints(kind, n, localReadable)
                               \o (IF ret = "ok" THEN <<Event("settle", "ok", n)>> ELSE <<>>)
             /\ usage' = IF kind = "help" THEN outputSupportedUsage(supportedArguments)
                         ELSE usage
             /\ execPending' = IF kind = "version" THEN execPending \cup {n} ELSE execPending
             /\ IF ret = "threw"
                THEN /\ pc' = "failed"
                     /\ error' = HandlerError(n)
                     /\ UNCHANGED argIdx
                ELSE /\ pc' = Await(argIdx).pc
                     /\ argIdx' = Await(argIdx).argIdx
                     /\ UNCHANGED error
    /\ UNCHANGED <<argv, runParams, supportedArguments, parsedArgs, processedArgs,
                   exitStatus, formats, finalFormat>>

\* A pending promise returned by a handler settles.
Settle ==
    /\ \E n \in 1..Len(calls) :
         /\ outcome[n] = "pending"
         /\ LET res == IF calls[n].f.kind = "rejects" THEN "rejected" ELSE "ok"
            IN  /\ outcome' = [outcome EXCEPT ![n] = res]
                /\ trace' = Append(trace, Event("settle", res, n))
    /\ UNCHANGED <<argv, runParams, supportedArguments, parsedArgs, processedArgs, pc,
                   error, exitStatus, argIdx, calls, execPending, usage, formats,
                   finalFormat>>

\* The awaited value has settled and the loop resumes.
RunResume ==
    /\ pc = "await"
    /\ argIdx <= Len(outcome)
    /\ outcome[argIdx] # "pending"
    /\ LET c == Continue(argIdx, outcome[argIdx])
       IN  /\ pc' = c.pc
           /\ argIdx' = c.argIdx
           /\ error' = c.error
           /\ trace' = IF c.pc = "done" THEN Append(trace, Event("return", "run", 0))
                       ELSE trace
    /\ UNCHANGED <<argv, runParams, supportedArguments, parsedArgs, processedArgs,
                   exitStatus, calls, outcome, execPending, usage, formats, finalFormat>>

\* The event loop is free to deliver I/O events: run() has ended, or it is
\* suspended on a promise that only a later event settles.  The promise of
\* help, and the resumption after a settled value, are microtasks, which run
\* before any I/O event.
EventLoopIdle ==
    \/ pc \in {"done", "failed"}
    \/ /\ pc = "await"
       /\ argIdx <= Len(outcome)
       /\ outcome[argIdx] = "pending"
       /\ calls[argIdx].f.kind \in {"async", "rejects"}

\* stdout.on("data", ...) of the child process version started: the global
\* version line is printed.
ExecData ==
    /\ EventLoopIdle
    /\ \E n \in execPending :
         /\ execPending' = execPending \ {n}
         /\ trace' = Append(trace, Event("print", "global-version", n))
    /\ UNCHANGED <<argv, runParams, supportedArguments, parsedArgs, processedArgs, pc,
                   error, exitStatus, argIdx, calls, outcome, usage, formats, finalFormat>>

(***************************************************************************)
(* Spec: run() on a command line "node script.js ..."                      *)
(***************************************************************************)
RunTokens == {TokX, TokH, TokV, TokA, TokB}

Entry(key, present, def) == IF present THEN <<[k |-> key, v |-> def]>> ELSE <<>>

\* The registries the embedding tool may pass: -a and -b with handlers of
\* each kind, and -h replacing the built-in help.
UserRegistries ==
    {Entry(TokA, ka # "absent", UserDef("alpha", "fa", ka))
       \o Entry(TokB, kb # "absent", UserDef("beta", "fb", kb))
       \o Entry(TokH, kh # "absent", UserDef("custom", "fh", kh)) :
     ka \in HandlerKinds \cup {"absent"},
     kb \in {"absent", "async", "throws"},
     kh \in {"absent", "sync"}}

InitRest ==
    /\ parsedArgs = <<>>
    /\ processedArgs = <<>>
    /\ error = NoError
    /\ exitStatus = -1
    /\ argIdx = 1
    /\ calls = <<>>
    /\ outcome = <<>>
    /\ execPending = {}
    /\ trace = <<>>
    /\ usage = <<>>
    /\ finalFormat = ""

InitCommon ==
    /\ supportedArguments = BuiltinArguments
    /\ formats = <<>>
    /\ InitRest

Init ==
    /\ argv \in {<<TokNode, TokScript>> \o rest : rest \in SeqsUpTo(RunTokens, MaxArgs)}
    /\ runParams \in UserRegistries
    /\ pc = "start"
    /\ InitCommon

Next ==
    \/ RunMerge
    \/ RunParse
    \/ RunProcess
    \/ RunCheckFlags
    \/ RunInvoke
    \/ Settle
    \/ RunResume
    \/ ExecData

Spec == Init /\ [][Next]_vars

(***************************************************************************)
(* SpecParse: parseInputArguments and processParsedArguments on any        *)
(* process.argv                                                            *)
(***************************************************************************)
ParseTokens == {TokEmpty, TokX, TokY, TokA, TokB, TokH}

InitParse ==
    /\ argv \in SeqsUpTo(ParseTokens, MaxTokens)
    /\ runParams \in {<<>>, Entry(TokA, TRUE, UserDef("alpha", "fa", "sync"))}
    /\ pc = "start"
    /\ InitCommon

NextParse ==
    \/ RunMerge
    \/ RunParse
    \/ RunProcess

SpecParse == InitParse /\ [][NextParse]_vars

(***************************************************************************)
(* SpecUsage: outputSupportedUsage on a registry that run() has assembled  *)
(***************************************************************************)
UsageNames == {"alpha", "beta", "help"}

UsageRegistries ==
    {Entry(TokA, na # "absent", UserDef(na, "fa", "sync"))
       \o Entry(TokAll, nl # "absent", UserDef(nl, "fl", "sync"))
       \o Entry(TokH, nh # "absent", UserDef(nh, "fh", "sync"))
       \o Entry(TokB, nb # "absent", UserDef(nb, "fb", "sync")) :
     na \in UsageNames \cup {"absent"}, nl \in UsageNames \cup {"absent"},
     nh \in UsageNames \cup {"absent"}, nb \in UsageNames \cup {"absent"}}

\* The registry is the one an earlier run() has merged the caller's entries into.
InitUsage ==
    /\ argv = <<>>
    /\ runParams \in UsageRegistries
    /\ supportedArguments = MergeArguments(BuiltinArguments, runParams)
    /\ formats = <<>>
    /\ pc = "idle"
    /\ InitRest

\* await outputSupportedUsage()
CallOutputSupportedUsage ==
    /\ pc = "idle"
    /\ usage' = outputSupportedUsage(supportedArguments)
    /\ trace' = trace \o <<Event("print", "usage-header", 0), Event("print", "usage-table", 0)>>
    /\ pc' = "usage-done"
    /\ UNCHANGED <<argv, runParams, supportedArguments, parsedArgs, processedArgs, error,
                   exitStatus, argIdx, calls, outcome, execPending, formats, finalFormat>>

NextUsage ==
    \/ CallOutputSupportedUsage

SpecUsage == InitUsage /\ [][NextUsage]_vars

(***************************************************************************)
(* getCommandLineFormat                                                    *)
(***************************************************************************)
\* commandLineColors
Color(name) ==
    CASE name = "reset" -> "\\x1b[0m"
      [] name = "bright" -> "\\x1b[1m"
      [] name = "dim" -> "\\x1b[2m"
      [] name = "foregroundBlack" -> "\\x1b[30m"
      [] name = "foregroundRed" -> "\\x1b[31m"
      [] name = "foregroundGreen" -> "\\x1b[32m"
      [] name = "foregroundYellow" -> "\\x1b[33m"
      [] name = "foregroundBlue" -> "\\x1b[34m"
      [] name = "foregroundMagenta" -> "\\x1b[35m"
      [] name = "foregroundCyan" -> "\\x1b[36m"
      [] name = "foregroundWhite" -> "\\x1b[37m"
      [] name = "backgroundBlack" -> "\\x1b[40m"

\* commandLineFormats
commandLineFormats ==
    {"heading", "subHeading", "default", "primary", "secondary", "success", "danger",
     "warning", "info", "light", "dark", "terminal"}

\* The body of the for..of loop: the switch on the format name.
FormatStep(finalFmt, format) ==
    CASE format = "heading" -> finalFmt \o Color("bright")
      [] format = "subHeading" -> finalFmt \o Color("dim")
      [] format = "default" -> finalFmt \o Color("reset")
      [] format = "primary" -> finalFmt \o Color("foregroundBlue")
      [] format = "secondary" -> finalFmt \o Color("foregroundCyan")
      [] format = "success" -> finalFmt \o Color("foregroundGreen")
      [] format = "danger" -> finalFmt \o Color("foregroundRed")
      [] format = "warning" -> finalFmt \o Color("foregroundYellow")
      [] format = "info" -> finalFmt \o Color("foregroundMagenta")
      [] format = "light" -> finalFmt \o Color("foregroundWhite")
      [] format = "dark" -> finalFmt \o Color("foregroundBlack")
      [] format = "terminal" -> finalFmt \o Color("foregroundWhite") \o Color("backgroundBlack")
      [] OTHER -> finalFmt

RECURSIVE FormatFrom(_, _, _)
FormatFrom(fmts, idx, finalFmt) ==
    IF idx > Len(fmts) THEN finalFmt
    ELSE FormatFrom(fmts, idx + 1, FormatStep(finalFmt, fmts[idx]))

\* A fold that starts from the empty string.
getCommandLineFormatNoReset(fmts) == FormatFrom(fmts, 1, "")

\* let finalFormat = commandLineColors.reset; for (const format of formats) ...
getCommandLineFormat(fmts) == FormatFrom(fmts, 1, Color("reset"))

FormatInputs == commandLineFormats \cup {"unknown-name", "reset"}

InitFormat ==
    /\ argv = <<>>
    /\ runParams = <<>>
    /\ pc = "format"
    /\ supportedArguments = BuiltinArguments
    /\ formats \in SeqsUpTo(FormatInputs, MaxFormats)
    /\ InitRest

\* getCommandLineFormat(formats)
CallGetCommandLineFormat ==
    /\ pc = "format"
    /\ finalFormat' = getCommandLineFormat(formats)
    /\ pc' = "format-done"
    /\ UNCHANGED <<argv, runParams, supportedArguments, parsedArgs, processedArgs, error,
                   exitStatus, argIdx, calls, outcome, execPending, trace, usage, formats>>

NextFormat ==
    \/ CallGetCommandLineFormat

SpecFormat == InitFormat /\ [][NextFormat]_vars

(***************************************************************************)
(* Properties of run()                                                     *)
(***************************************************************************)
IsFlag(tok) == CharAt0(tok) = "-"

\* The registry run() works with: the built-ins with the caller's entries merged in.
MergedRegistry == MergeArguments(BuiltinArguments, runParams)

FlagPositions == {i \in 1..Len(argv) : IsFlag(argv[i])}

Pending == {n \in 1..Len(calls) : outcome[n] = "pending"}

IsPrefix(s, t) == Len(s) <= Len(t) /\ \A i \in 1..Len(s) : s[i] = t[i]

\* C1: handlers are dispatched strictly sequentially: a handler is started
\* only after the value returned by the handler of the key before it has
\* settled, and at no point are two handlers in progress (started, their
\* returned value not yet settled) at once.
C1_SequentialDispatch ==
    /\ Cardinality(Pending) <= 1
    /\ \A q \in 1..Len(trace) :
         (trace[q].e = "start" /\ trace[q].i > 1)
            => \E p \in 1..(q - 1) : trace[p].e = "settle" /\ trace[p].i = trace[q].i - 1

\* A handler was started after the promise of the one before it had been
\* pending across an event.
C1_Witness ==
    /\ Len(calls) >= 2
    /\ calls[1].f.kind = "async"
    /\ outcome[1] = "ok"

\* C2: all output of the built-in version handler, the global version line
\* printed from the child process's output included, is emitted before the
\* handler of the next flag starts and before run() completes.
C2_VersionOutputComplete ==
    \A p \in 1..Len(trace) :
       (trace[p].e = "start" /\ trace[p].what = "version")
          => \A q \in (p + 1)..Len(trace) :
                trace[q].e \in {"start", "return"}
                   => \E r \in p..q : trace[r] = Event("print", "global-version", trace[p].i)

\* C5: with no flag token in the argument list, run prints the no-flags hint
\* and exits with a non-zero status, and no handler is ever invoked.
C5_NoFlagsExit ==
    (FlagPositions = {})
       => /\ calls = <<>>
          /\ pc \in {"start", "parse", "process", "check", "exited"}
          /\ pc = "exited"
                => /\ exitStatus # 0
                   /\ exitStatus # -1
                   /\ \E p \in 1..Len(trace) : trace[p] = Event("print", "no-flags-hint", 0)
          /\ pc # "exited" => exitStatus = -1

\* run was given "node script.js x" and has exited.
C5_Witness ==
    /\ pc = "exited"
    /\ argv = <<TokNode, TokScript, TokX>>

\* The distinct flag tokens of argv in the order of their first occurrence.
RECURSIVE FirstOccurrences(_)
FirstOccurrences(n) ==
    IF n = 0 THEN <<>>
    ELSE LET before == FirstOccurrences(n - 1)
         IN  IF IsFlag(argv[n]) /\ \A j \in 1..(n - 1) : argv[j] # argv[n]
             THEN Append(before, argv[n])
             ELSE before

AllRecognized == \A i \in FlagPositions : HasKey(MergedRegistry, argv[i])

\* The invocations a complete dispatch makes: per distinct flag key, in the
\* order of first insertion, the handler registered under it with the key's
\* bucket as arguments.
ExpectedCalls ==
    LET keys == FirstOccurrences(Len(argv))
    IN  [i \in 1..Len(keys) |->
           [key |-> keys[i],
            f |-> GetProp(MergedRegistry, keys[i]).f,
            args |-> GetProp(processedArgs, keys[i])]]

RunEnded == pc \in {"done", "failed", "exited"}

\* C6, as stated: when every supplied flag is in the registry, run invokes
\* for each distinct flag key, in insertion order, exactly the handler
\* registered under it, exactly once, with the key's bucket as arguments.
C6_AllHandlersInvoked ==
    (AllRecognized /\ RunEnded /\ FlagPositions # {}) => calls = ExpectedCalls

\* C6, amended: when every supplied flag is in the registry, the invocations
\* run makes are at all times a prefix of the expected ones (per distinct key,
\* in insertion order, the registered handler, once, with the bucket as
\* arguments); all of them have been made when run returns normally, and when
\* a handler raises, exactly those up to the raising one.
C6_HandlersInvokedUntilFailure ==
    (AllRecognized /\ pc \notin {"start", "parse", "process"})
       => /\ IsPrefix(calls, ExpectedCalls)
          /\ pc = "done" => calls = ExpectedCalls
          /\ pc = "failed" => /\ Len(calls) >= 1
                              /\ outcome[Len(calls)] \in {"threw", "rejected"}
          /\ \A n \in 1..Len(calls) :
                outcome[n] \in {"threw", "rejected"} => n = Len(calls)

\* A run over two keys, one of them carrying values, has returned.
C6_Witness ==
    /\ pc = "done"
    /\ Len(calls) >= 2
    /\ \E n \in 1..Len(calls) : calls[n].args # <<>>
    /\ calls = ExpectedCalls

\* C7: dispatch is fail-fast: once a handler has raised (by throwing or by
\* rejecting its promise) it is the last handler invoked, every handler
\* before it has completed, and run is rejected with its failure.
C7_FailFast ==
    \A n \in 1..Len(calls) :
       outcome[n] \in {"threw", "rejected"}
          => /\ n = Len(calls)
             /\ \A m \in 1..(n - 1) : outcome[m] = "ok"
             /\ pc \in {"await", "failed"}
             /\ outcome[n] = "threw" => pc = "failed"
             /\ pc = "failed" => error = HandlerError(n)
             /\ pc = "await" => error = NoError

\* The second of three handlers rejected, and run has been rejected.
C7_Witness ==
    /\ pc = "failed"
    /\ Len(calls) = 2
    /\ outcome[2] = "rejected"
    /\ Len(ObjectKeys(processedArgs)) = 3

HasUnrecognized == \E i \in FlagPositions : ~HasKey(MergedRegistry, argv[i])

\* C10: validation of all flag keys completes before any dispatch: with a
\* flag token absent from the merged registry, run raises and no handler is
\* invoked at all.
C10_ValidationBeforeDispatch ==
    HasUnrecognized
       => /\ calls = <<>>
          /\ pc \in {"start", "parse", "process", "failed"}
          /\ pc = "failed" => error.name = "Error"

\* run raised on a command line whose first flag is recognized.
C10_Witness ==
    /\ pc = "failed"
    /\ HasUnrecognized
    /\ \E i \in FlagPositions :
         /\ HasKey(MergedRegistry, argv[i])
         /\ \A j \in FlagPositions : i <= j

(***************************************************************************)
(* Properties of parseInputArguments and processParsedArguments            *)
(***************************************************************************)
\* The bucket the token at position i belongs to by scan position: the
\* nearest flag token before it, or the reserved bucket.
Owner(i) ==
    LET before == {j \in FlagPositions : j < i}
    IN  IF before = {} THEN unknowns
        ELSE argv[CHOOSE j \in before : \A l \in before : l <= j]

\* The non-flag tokens among the first n that belong to bucket key, in input order.
RECURSIVE BucketByPosition(_, _)
BucketByPosition(key, n) ==
    IF n = 0 THEN <<>>
    ELSE LET before == BucketByPosition(key, n - 1)
         IN  IF ~IsFlag(argv[n]) /\ Owner(n) = key THEN Append(before, argv[n]) ELSE before

\* C3: parseInputArguments partitions the non-flag tokens by scan position:
\* every bucket holds, in input order, exactly the non-flag tokens whose
\* nearest preceding flag token is its key (the reserved bucket those before
\* the first flag), so no non-flag token is lost, also when a flag token
\* occurs a second time.
C3_PartitionByScanPosition ==
    pc = "process"
       => /\ \A i \in 1..Len(parsedArgs) :
                parsedArgs[i].v = BucketByPosition(parsedArgs[i].k, Len(argv))
          /\ \A i \in FlagPositions : HasKey(parsedArgs, argv[i])
          /\ HasKey(parsedArgs, unknowns)

\* The mapping processParsedArguments is given.
ParsedInput == parseInputArguments(argv)

UnrecognizedAt ==
    {i \in 1..Len(ParsedInput) :
        ParsedInput[i].k # unknowns /\ ~HasKey(supportedArguments, ParsedInput[i].k)}

\* C4: processParsedArguments raises if and only if a key other than the
\* reserved bucket is absent from the registry; the error then names the
\* first such key in insertion order; otherwise it returns the mapping with
\* the reserved bucket removed and every other key and value unchanged.
C4_ValidateOrReturn ==
    pc \in {"check", "failed"}
       => /\ pc = "failed" <=> UnrecognizedAt # {}
          /\ pc = "failed"
                => LET first == CHOOSE i \in UnrecognizedAt : \A j \in UnrecognizedAt : i <= j
                   IN  /\ error = NewError(<<"Invalid argument: ">> \o ParsedInput[first].k)
                       /\ trace = <<Event("print", "error-banner", 0)>>
          /\ pc = "check"
                => /\ ~HasKey(processedArgs, unknowns)
                   /\ Len(processedArgs) = Len(ParsedInput) - 1
                   /\ \A i \in 1..Len(ParsedInput) :
                         ParsedInput[i].k # unknowns
                            => \E j \in 1..Len(processedArgs) :
                                  /\ processedArgs[j] = ParsedInput[i]
                                  /\ j = Cardinality({l \in 1..i : ParsedInput[l].k # unknowns})
                   /\ error = NoError

\* Two different keys are absent from the registry, the first with values
\* behind it: the error names -b, the first of them.
C4_Witness ==
    /\ pc = "failed"
    /\ argv = <<TokB, TokX, TokY, TokA>>
    /\ runParams = <<>>
    /\ error = NewError(<<"Invalid argument: ", "-", "b">>)

(***************************************************************************)
(* Properties of outputSupportedUsage                                      *)
(***************************************************************************)
\* Position of a token in Object.keys(supportedArguments).
RegistryPos(tok) == CHOOSE i \in 1..Len(supportedArguments) : supportedArguments[i].k = tok

AnsiOf(name) ==
    CASE name = "heading" -> "\\x1b[1m"
      [] name = "subHeading" -> "\\x1b[2m"
      [] name = "default" -> "\\x1b[0m"
      [] name = "primary" -> "\\x1b[34m"
      [] name = "secondary" -> "\\x1b[36m"
      [] name = "success" -> "\\x1b[32m"
      [] name = "danger" -> "\\x1b[31m"
      [] name = "warning" -> "\\x1b[33m"
      [] name = "info" -> "\\x1b[35m"
      [] name = "light" -> "\\x1b[37m"
      [] name = "dark" -> "\\x1b[30m"
      [] name = "terminal" -> "\\x1b[37m\\x1b[40m"
      [] OTHER -> ""

\* The codes of the names from position i on, in argument order.
RECURSIVE CodesFrom(_)
CodesFrom(i) == IF i > Len(formats) THEN "" ELSE AnsiOf(formats[i]) \o CodesFrom(i + 1)

\* C8: getCommandLineFormat returns the reset code followed by the codes of
\* the recognized names in argument order, unrecognized names contributing
\* nothing: no name or only unknown names give the reset code alone, and
\* heading, primary gives reset, bright, foreground-blue.
C8_ResetThenCodesInOrder ==
    pc = "format-done"
       => /\ finalFormat = "\\x1b[0m" \o CodesFrom(1)
          /\ (\A i \in 1..Len(formats) : formats[i] \notin commandLineFormats)
                => finalFormat = "\\x1b[0m"
          /\ formats = <<"heading", "primary">> => finalFormat = "\\x1b[0m\\x1b[1m\\x1b[34m"

\* terminal between an unknown name and a colour has been resolved.
C8_Witness ==
    /\ pc = "format-done"
    /\ formats = <<"unknown-name", "terminal", "primary">>
    /\ finalFormat = "\\x1b[0m\\x1b[37m\\x1b[40m\\x1b[34m"

====
